---- MODULE Spec2Model ----
(***************************************************************************)
(* Model of the canvas editor of Creaza (frontend/src/components/Canvas.tsx).*)
(*                                                                         *)
(* Spec     the tool controller: the Canvas component's React state, the   *)
(*          off-screen layer canvas, the layers it is given and every      *)
(*          commit (call of onLayerUpdate) its handlers make.  One action  *)
(*          is one event handler together with the re-render and the       *)
(*          effects that follow it.                                        *)
(* MapSpec  the coordinate mapper alone: getLayerPos and the forward       *)
(*          transform of the render effect, applied to drawn inputs.       *)
(* RenderSpec  the render effect alone, run at mount and on every change   *)
(*          of the layers or of the active layer, with the calls of its    *)
(*          try block free to throw.                                       *)
(* AiSpec   the requests of AIPanel.tsx and ChatBot.tsx to the AI service  *)
(*          the flags that guard them, the progress bar with its timers    *)
(*          and the history a chat request carries.                        *)
(* EnhanceSpec  ImageProcessor.enhanceImage applied to drawn calls.        *)
(*                                                                         *)
(* Numbers: translate and rotation are integers, scales and mapped         *)
(* coordinates are exact rationals <<n, d>>; a division by zero yields the *)
(* non-finite values JavaScript yields (Infinity, -Infinity, NaN).         *)
(***************************************************************************)
EXTENDS Integers, Sequences, FiniteSets, TLC

(***************************************************************************)
(* Bounds of the model.                                                    *)
(***************************************************************************)
\* |transform.x|, |transform.y| a move may reach
MaxShift == 20
\* |rotation| a rotate control may reach
MaxRot == 450
\* stroke segments drawn on the layer canvas between two loads
MaxSeg == 2
\* ctrl+wheel notches in one run
MaxWheel == 1
\* user events in one run
MaxEvents == 5
\* renders that fail after ctx.save() in one run
MaxLeak == 2
\* re-renders in one run
MaxRenders == 3
\* requests to the AI service in one run
MaxRequests == 3

(***************************************************************************)
(* Exact rational arithmetic, with JavaScript's non-finite results.        *)
(***************************************************************************)
Abs(i) == IF i < 0 THEN -i ELSE i

RECURSIVE Gcd(_, _)
Gcd(a, b) == IF b = 0 THEN a ELSE Gcd(b, a % b)

\* JavaScript's non-finite numbers, written as fractions over zero
Infinity == <<1, 0>>
NegInfinity == <<-1, 0>>
NaN == <<0, 0>>

IsFinite(r) == r[2] # 0

\* the rational n/d (d # 0) in lowest terms with a positive denominator
Rat(n, d) ==
    LET g == Gcd(Abs(n), Abs(d))
        s == IF d < 0 THEN -1 ELSE 1
    IN  <<(s * n) \div g, (s * d) \div g>>

RInt(i) == <<i, 1>>

RAbs(r) == <<Abs(r[1]), r[2]>>

RNeg(r) == <<-r[1], r[2]>>

\* JavaScript's a + b
RAdd(a, b) ==
    IF a = NaN \/ b = NaN THEN NaN
    ELSE IF ~IsFinite(a) /\ ~IsFinite(b) THEN (IF a = b THEN a ELSE NaN)
    ELSE IF ~IsFinite(a) THEN a
    ELSE IF ~IsFinite(b) THEN b
    ELSE Rat(a[1] * b[2] + b[1] * a[2], a[2] * b[2])

RSub(a, b) == RAdd(a, RNeg(b))

\* a * b for finite a, b
RMul(a, b) == Rat(a[1] * b[1], a[2] * b[2])

\* JavaScript's a / b for finite a, b
RDiv(a, b) ==
    IF b[1] = 0
    THEN (IF a[1] = 0 THEN NaN ELSE IF a[1] > 0 THEN Infinity ELSE NegInfinity)
    ELSE Rat(a[1] * b[2], a[2] * b[1])

RLess(a, b) == a[1] * b[2] < b[1] * a[2]

RMax(a, b) == IF RLess(a, b) THEN b ELSE a

RMin(a, b) == IF RLess(a, b) THEN a ELSE b

(***************************************************************************)
(* The data model: Layer and its optional transform (Canvas.tsx 4-20).     *)
(***************************************************************************)
LayerIds == {"L1", "L2"}

\* activeLayer: string | null
Null == "null"

\* transform?: undefined
NoTransform == [undefined |-> TRUE]

\* a point state that is null
NoPoint == [null |-> TRUE]

\* imageData?: undefined.  A pixel buffer is a reference, modelled by a number.
NoImage == 0

\* the default every reader of layer.transform falls back to
IdentityTransform ==
    [x |-> 0, y |-> 0, scaleX |-> RInt(1), scaleY |-> RInt(1), rotation |-> 0]

\* activeLayerData.transform || { x: 0, y: 0, scaleX: 1, scaleY: 1, rotation: 0 }
TransformOrIdentity(t) == IF t = NoTransform THEN IdentityTransform ELSE t

Tools == {"brush", "eraser", "crop", "move", "pan", "rotate", "text", "resize",
          "zoom"}

\* the display canvas, sized once from its container
CanvasW == 40
CanvasH == 40

Point(px, py) == [x |-> px, y |-> py]

\* pointer positions getMousePos returns
Pos == {Point(20, 20), Point(40, 40)}

VARIABLES
    layers,          \* props.layers: id -> [imageData, transform, visible]
    activeLayer,     \* props.activeLayer
    tool,            \* props.tool
    isDrawing,       \* isDrawingRef.current
    dragStart,       \* dragStart state
    isRotating,      \* isRotating state
    rotationCenter,  \* rotationCenter state
    rotationAngle,   \* rotationAngle state
    imageScale,      \* imageScale state
    textValue,       \* textValue state
    cropStart, cropEnd, isCropping, showCropConfirm,
    layerCanvas,     \* layerCanvasRef / layerCtxRef: the off-screen surface
    commit,          \* the onLayerUpdate call of the latest event, if it made one
    nWheel,          \* ctrl+wheel notches so far
    nEvents,         \* user events so far
    gesture,         \* history: the pointer gesture in progress
    mT, mSize, mP, mLayerPos, mBack,  \* MapSpec: inputs and results
    frame,           \* RenderSpec: what the latest render put on the display
    ctx,             \* RenderSpec: the display context's drawing state
    nRenders,        \* RenderSpec: re-renders so far
    isProcessing, captionProcessing, captionFile, textPrompt, \* AIPanel state
    imageContent,    \* AIPanel: hasImageContent()
    messages, input, isLoading,   \* ChatBot state
    inFlight,        \* requests awaiting their response, per kind
    settled,         \* the request the latest step settled, if it did
    nSent,           \* requests issued so far
    progress, progressMessage,    \* AIPanel: the progress bar
    progressInterval,  \* AIPanel: setInterval timers still running
    resetTimers,     \* AIPanel: setTimeout resets not yet fired
    processType,     \* AIPanel: the type of the process request in flight
    chatHistory,     \* ChatBot: the history of the latest request sent
    eIn, eOut        \* EnhanceSpec: the call of enhanceImage and its promise

canvasVars == <<layers, activeLayer, tool, isDrawing, dragStart, isRotating,
                rotationCenter, rotationAngle, imageScale, textValue, cropStart,
                cropEnd, isCropping, showCropConfirm, layerCanvas, commit,
                nWheel, nEvents, gesture>>

mapVars == <<mT, mSize, mP, mLayerPos, mBack>>

renderVars == <<frame, ctx, nRenders>>

aiVars == <<isProcessing, captionProcessing, captionFile, textPrompt,
            imageContent, messages, input, isLoading, inFlight, settled,
            nSent, progress, progressMessage, progressInterval, resetTimers,
            processType, chatHistory>>

progressVars == <<progress, progressMessage, progressInterval, resetTimers,
                  processType>>

enhanceVars == <<eIn, eOut>>

vars == <<canvasVars, mapVars, renderVars, aiVars, enhanceVars>>

(***************************************************************************)
(* The Layer Store behind onLayerUpdate (useImageEditor.updateLayer).      *)
(***************************************************************************)
\* updateLayer(layerId, imageData, transform): the layer takes the buffer and
\* the transform the commit carries; a commit without a transform leaves the
\* layer with none
UpdateLayer(ls, id, img, tr) ==
    [ls EXCEPT ![id] = [@ EXCEPT !.imageData = img, !.transform = tr]]

(***************************************************************************)
(* Effects run after every render in which layers or activeLayer changed.  *)
(***************************************************************************)
NewLayerCanvas == [created |-> FALSE, loaded |-> NoImage, marks |-> 0,
                   op |-> "source-over"]

\* the render effect's load of the layer canvas: setting its size resets the
\* context, putImageData replaces its pixels
RenderLayerCanvas(ls, al, lc) ==
    IF al # Null /\ ls[al].visible /\ ls[al].imageData # NoImage
    THEN [created |-> TRUE, loaded |-> ls[al].imageData, marks |-> 0,
          op |-> "source-over"]
    ELSE lc

\* the rotation sync effect
SyncRotation(ls, al, ra) ==
    IF al # Null /\ ls[al].transform # NoTransform
    THEN ls[al].transform.rotation
    ELSE ra

\* ctx.getImageData(...): a new buffer, one that nothing refers to yet
FreshImage ==
    LET used == {layers[l].imageData : l \in LayerIds} \cup {layerCanvas.loaded}
    IN  CHOOSE n \in 1..(Cardinality(used) + 1) :
            n \notin used /\ \A m \in 1..(n - 1) : m \in used

\* what the buffer of a commit was read from.  The crop dialog reads the
\* selection off the display canvas, clears the canvas, puts the selection at
\* its top-left corner and reads the whole canvas back
ReadBack(by) ==
    CASE by = "crop" ->
             [surface |-> "display", width |-> CanvasW, height |-> CanvasH,
              at |-> Point(0, 0),
              region |-> [x |-> IF cropStart.x < cropEnd.x THEN cropStart.x
                                ELSE cropEnd.x,
                          y |-> IF cropStart.y < cropEnd.y THEN cropStart.y
                                ELSE cropEnd.y,
                          width |-> Abs(cropEnd.x - cropStart.x),
                          height |-> Abs(cropEnd.y - cropStart.y)]]
      [] by = "resize-wheel" ->
             [surface |-> "display", width |-> CanvasW, height |-> CanvasH]
      [] by \in {"paint", "text"} -> [surface |-> "layerCanvas"]
      [] OTHER -> [surface |-> "none"]

\* onLayerUpdate(id, img, tr), then the re-render with its two effects; lc and
\* ra are the layer canvas and the rotation angle as the handler left them
Commit(id, img, tr, by, lc, ra) ==
    /\ commit' = [id |-> id, imageData |-> img, transform |-> tr, by |-> by,
                  read |-> ReadBack(by)]
    /\ layers' = UpdateLayer(layers, id, img, tr)
    /\ layerCanvas' = RenderLayerCanvas(layers', activeLayer, lc)
    /\ rotationAngle' = SyncRotation(layers', activeLayer, ra)

\* the handler returns without calling onLayerUpdate
NoCommitMade == [by |-> "none"]

NoCommit == commit' = NoCommitMade /\ UNCHANGED layers

(***************************************************************************)
(* Pieces of the handlers.                                                 *)
(***************************************************************************)
PaintTools == {"brush", "eraser"}

\* textValue.trim() is truthy
NonBlank(v) == v \notin {"", " "}

\* Math.atan2(dy, dx) in degrees, to the nearest whole degree, on the
\* directions the pointer grid has
Atan2Q1(dy, dx) ==
    LET g == Gcd(dy, dx)
        a == dy \div g
        b == dx \div g
    IN  CASE a = 1 /\ b = 1 -> 45
          [] a = 1 /\ b = 2 -> 27
          [] a = 2 /\ b = 1 -> 63

Atan2Deg(dy, dx) ==
    CASE dy = 0 /\ dx >= 0 -> 0
      [] dy = 0 /\ dx < 0 -> 180
      [] dx = 0 /\ dy > 0 -> 90
      [] dx = 0 /\ dy < 0 -> -90
      [] dy > 0 /\ dx > 0 -> Atan2Q1(dy, dx)
      [] dy > 0 /\ dx < 0 -> 180 - Atan2Q1(dy, -dx)
      [] dy < 0 /\ dx > 0 -> -Atan2Q1(-dy, dx)
      [] dy < 0 /\ dx < 0 -> Atan2Q1(-dy, -dx) - 180

\* a rotation center that is the raw display center whatever the translate
RotationCenterRaw(ls, al) == Point(CanvasW \div 2, CanvasH \div 2)

\* handleMouseDown (rotate): the rotation center
RotationCenterAt(ls, al) ==
    IF al # Null /\ ls[al].transform # NoTransform
    THEN Point(CanvasW \div 2 + ls[al].transform.x,
               CanvasH \div 2 + ls[al].transform.y)
    ELSE Point(CanvasW \div 2, CanvasH \div 2)

\* a stroke that commits its pixels and no transform
PaintCommitNoTransform(layerData) == NoTransform

\* the transform a brush or eraser stroke commits
PaintCommitTransform(layerData) == layerData.transform

\* a text commit that carries the default transform instead of the layer's
TextCommitIdentity(layerData) == IdentityTransform

\* the transform a text commit carries
TextCommitTransform(layerData) == layerData.transform

\* a pointer-move that draws nothing
StrokeNotExtended(lc) == lc

\* handleMouseMove (brush, eraser): lineTo and stroke on the layer canvas
StrokeSegment(lc) == [lc EXCEPT !.marks = @ + 1]

\* a transform tool that commits a buffer read back anew
TransformToolReadBack(layerData) == FreshImage

\* the buffer a move or rotate commit carries
TransformToolImage(layerData) == layerData.imageData

\* a move that sets the translate to the last delta instead of adding it
MoveOverwritesTranslate(cur, pos, ds) ==
    [cur EXCEPT !.x = pos.x - ds.x, !.y = pos.y - ds.y]

\* handleMouseMove (move): the new transform
MoveNewTransform(cur, pos, ds) ==
    [cur EXCEPT !.x = cur.x + (pos.x - ds.x), !.y = cur.y + (pos.y - ds.y)]

\* handleMouseMove (rotate): the new rotation
DragNewRotation(ra, pos, ds, c) ==
    ra + (Atan2Deg(pos.y - c.y, pos.x - c.x) - Atan2Deg(ds.y - c.y, ds.x - c.x))

\* the rotate controls: { ...currentTransform, rotation: newAngle }
RotateNewTransform(cur, newAngle) == [cur EXCEPT !.rotation = newAngle]

\* the resize controls: { ...currentTransform, scaleX: newScale, scaleY: newScale }
ResizeNewTransform(cur, newScale) ==
    [cur EXCEPT !.scaleX = newScale, !.scaleY = newScale]

\* onWheel: Math.max(0.1, Math.min(3, imageScale * delta))
WheelNewScale(s, up) ==
    RMax(Rat(1, 10), RMin(RInt(3), RMul(s, IF up THEN Rat(11, 10) ELSE Rat(9, 10))))

(***************************************************************************)
(* History of the gesture in progress, kept for stating properties.        *)
(***************************************************************************)
NoGesture == [kind |-> "none"]

\* the gesture that a pointer-up or pointer-leave has just ended
Ended(g) ==
    IF g.kind \in Tools THEN [kind |-> "ended", of |-> g]
    ELSE IF g.kind = "switched" THEN [kind |-> "ended-switched", of |-> g.of]
    ELSE NoGesture

\* the active layer is changed while a brush or eraser stroke is in progress:
\* the record of the stroke is kept, marked as switched
Switched(g, drawing) ==
    IF g.kind \in {"brush", "eraser"} /\ drawing
    THEN [kind |-> "switched", of |-> g]
    ELSE NoGesture

\* a run of consecutive presses of the -90 or the +90 button on one layer
Pressed(g, by, data) ==
    IF g.kind = "presses" /\ g.by = by
    THEN [g EXCEPT !.n = @ + 1]
    ELSE IF by \in {"rotate-minus90", "rotate-plus90"}
    THEN [kind |-> "presses", by |-> by, n |-> 1,
          start |-> TransformOrIdentity(data.transform), img |-> data.imageData]
    ELSE NoGesture

\* any event other than the gesture's own pointer events ends the record
Interrupt == gesture' = NoGesture

\* one more user event; the coordinate mapper's variables are not involved
Event ==
    /\ nEvents < MaxEvents
    /\ nEvents' = nEvents + 1
    /\ UNCHANGED <<mapVars, renderVars, aiVars, enhanceVars>>

(***************************************************************************)
(* The coordinate mapper.                                                  *)
(***************************************************************************)
\* <<cos, sin>> of a degrees, for the angles whose cosine and sine are
\* rational: the multiples of 90 and those 36.87 (written 37) away from one,
\* the angles of the 3-4-5 triangle
CosSin(a) ==
    LET m == a % 360
    IN  CASE m = 0 -> <<Rat(1, 1), Rat(0, 1)>>
          [] m = 37 -> <<Rat(4, 5), Rat(3, 5)>>
          [] m = 53 -> <<Rat(3, 5), Rat(4, 5)>>
          [] m = 90 -> <<Rat(0, 1), Rat(1, 1)>>
          [] m = 127 -> <<Rat(-3, 5), Rat(4, 5)>>
          [] m = 143 -> <<Rat(-4, 5), Rat(3, 5)>>
          [] m = 180 -> <<Rat(-1, 1), Rat(0, 1)>>
          [] m = 217 -> <<Rat(-4, 5), Rat(-3, 5)>>
          [] m = 233 -> <<Rat(-3, 5), Rat(-4, 5)>>
          [] m = 270 -> <<Rat(0, 1), Rat(-1, 1)>>
          [] m = 307 -> <<Rat(3, 5), Rat(-4, 5)>>
          [] m = 323 -> <<Rat(4, 5), Rat(-3, 5)>>

\* a buffer's size when the layer has no imageData
NoSize == [none |-> TRUE]

\* an inverse mapping that rotates by +rotation, as the forward mapping does
getLayerPosSameRotation(size, transform, canvasPos) ==
    IF size = NoSize THEN canvasPos
    ELSE
    LET t == TransformOrIdentity(transform)
        x == RSub(canvasPos.x, RAdd(Rat(CanvasW, 2), RInt(t.x)))
        y == RSub(canvasPos.y, RAdd(Rat(CanvasH, 2), RInt(t.y)))
        cos == CosSin(t.rotation)[1]
        sin == CosSin(t.rotation)[2]
        rotX == RSub(RMul(x, cos), RMul(y, sin))
        rotY == RAdd(RMul(x, sin), RMul(y, cos))
    IN  [x |-> RAdd(RDiv(rotX, RAbs(t.scaleX)), Rat(size.width, 2)),
         y |-> RAdd(RDiv(rotY, RAbs(t.scaleY)), Rat(size.height, 2))]

\* an inverse mapping around the raw display center, the translate left out
getLayerPosRawCenter(size, transform, canvasPos) ==
    IF size = NoSize THEN canvasPos
    ELSE
    LET t == TransformOrIdentity(transform)
        x == RSub(canvasPos.x, Rat(CanvasW, 2))
        y == RSub(canvasPos.y, Rat(CanvasH, 2))
        cos == CosSin(-t.rotation)[1]
        sin == CosSin(-t.rotation)[2]
        rotX == RSub(RMul(x, cos), RMul(y, sin))
        rotY == RAdd(RMul(x, sin), RMul(y, cos))
    IN  [x |-> RAdd(RDiv(rotX, RAbs(t.scaleX)), Rat(size.width, 2)),
         y |-> RAdd(RDiv(rotY, RAbs(t.scaleY)), Rat(size.height, 2))]

\* getLayerPos: display-space canvasPos to layer-local coordinates, for the
\* active layer's buffer size and transform
getLayerPos(size, transform, canvasPos) ==
    IF size = NoSize THEN canvasPos
    ELSE
    LET t == TransformOrIdentity(transform)
        centerX == RAdd(Rat(CanvasW, 2), RInt(t.x))
        centerY == RAdd(Rat(CanvasH, 2), RInt(t.y))
        x == RSub(canvasPos.x, centerX)
        y == RSub(canvasPos.y, centerY)
        cos == CosSin(-t.rotation)[1]
        sin == CosSin(-t.rotation)[2]
        rotX == RSub(RMul(x, cos), RMul(y, sin))
        rotY == RAdd(RMul(x, sin), RMul(y, cos))
    IN  [x |-> RAdd(RDiv(rotX, RAbs(t.scaleX)), Rat(size.width, 2)),
         y |-> RAdd(RDiv(rotY, RAbs(t.scaleY)), Rat(size.height, 2))]

\* where the render effect draws the layer-local point p: translate to the
\* display center plus the translate, rotate, scale by the absolute scales,
\* draw the buffer at minus half its size
ForwardMap(size, transform, p) ==
    LET t == TransformOrIdentity(transform)
        u == RMul(RSub(p.x, Rat(size.width, 2)), RAbs(t.scaleX))
        v == RMul(RSub(p.y, Rat(size.height, 2)), RAbs(t.scaleY))
        cos == CosSin(t.rotation)[1]
        sin == CosSin(t.rotation)[2]
    IN  [x |-> RAdd(RAdd(Rat(CanvasW, 2), RInt(t.x)),
                    RSub(RMul(u, cos), RMul(v, sin))),
         y |-> RAdd(RAdd(Rat(CanvasH, 2), RInt(t.y)),
                    RAdd(RMul(u, sin), RMul(v, cos)))]

(***************************************************************************)
(* The state after mount.                                                  *)
(***************************************************************************)
InitTransform ==
    [x |-> 20, y |-> 0, scaleX |-> RInt(1), scaleY |-> RInt(1), rotation |-> 45]

\* the component's own state as useState and useRef initialise it
ToolIdle ==
    /\ isDrawing = FALSE
    /\ dragStart = NoPoint
    /\ isRotating = FALSE
    /\ rotationCenter = NoPoint
    /\ imageScale = RInt(1)
    /\ textValue = ""
    /\ cropStart = NoPoint /\ cropEnd = NoPoint
    /\ isCropping = FALSE /\ showCropConfirm = FALSE
    /\ commit = NoCommitMade
    /\ nWheel = 0
    /\ nEvents = 0
    /\ gesture = NoGesture

CanvasInit ==
    /\ layers \in [LayerIds -> [imageData : {NoImage, 1, 2},
                                transform : {NoTransform, InitTransform},
                                visible : BOOLEAN,
                                opacity : {RInt(1)},
                                blendMode : {"source-over"}]]
    /\ layers["L1"].imageData = 1 /\ layers["L1"].visible
    /\ layers["L2"].imageData \in {NoImage, 2}
    /\ layers["L2"].transform = NoTransform
    /\ activeLayer \in LayerIds \cup {Null}
    /\ tool \in Tools
    /\ rotationAngle = SyncRotation(layers, activeLayer, 0)
    /\ layerCanvas = RenderLayerCanvas(layers, activeLayer, NewLayerCanvas)
    /\ ToolIdle

MapIdle ==
    /\ mT = NoTransform /\ mSize = NoSize /\ mP = NoPoint
    /\ mLayerPos = NoPoint /\ mBack = NoPoint

\* the display context as canvas.getContext('2d') gives it
NewContext == [globalAlpha |-> RInt(1), op |-> "source-over", saved |-> 0,
               transform |-> <<>>]

NothingDrawn == [none |-> TRUE]

RenderIdle ==
    /\ frame = [white |-> TRUE, drawn |-> NothingDrawn, thrown |-> "none"]
    /\ ctx = NewContext
    /\ nRenders = 0

\* AIPanel and ChatBot as mounted: the transcript holds the greeting
Greeting == [text |-> "greeting", isUser |-> FALSE]

\* the step settled no request
NoneSettled == [kind |-> "none"]

AiIdle ==
    /\ isProcessing = FALSE /\ captionProcessing = FALSE
    /\ captionFile = FALSE /\ textPrompt = ""
    /\ imageContent = FALSE
    /\ messages = <<Greeting>> /\ input = "" /\ isLoading = FALSE
    /\ inFlight = [process |-> 0, caption |-> 0, chat |-> 0]
    /\ settled = NoneSettled
    /\ nSent = 0
    /\ progress = 0 /\ progressMessage = ""
    /\ progressInterval = 0 /\ resetTimers = 0
    /\ processType = "none"
    /\ chatHistory = <<>>

\* no call of enhanceImage
NoCall == [none |-> TRUE]

EnhanceIdle == eIn = NoCall /\ eOut = NoCall

Init == CanvasInit /\ MapIdle /\ RenderIdle /\ AiIdle /\ EnhanceIdle

(***************************************************************************)
(* Props changed by the rest of the application.                           *)
(***************************************************************************)
SetTool(t) ==
    /\ t # tool
    /\ tool' = t
    /\ Interrupt
    /\ UNCHANGED <<layers, activeLayer, isDrawing, dragStart, isRotating,
                   rotationCenter, rotationAngle, imageScale, textValue, cropStart,
                   cropEnd, isCropping, showCropConfirm, layerCanvas, nWheel>>
    /\ commit' = NoCommitMade
    /\ Event

SetActiveLayer(id) ==
    /\ id # activeLayer
    /\ activeLayer' = id
    /\ layerCanvas' = RenderLayerCanvas(layers, id, layerCanvas)
    /\ rotationAngle' = SyncRotation(layers, id, rotationAngle)
    /\ gesture' = Switched(gesture, isDrawing)
    /\ UNCHANGED <<layers, tool, isDrawing, dragStart, isRotating, rotationCenter,
                   imageScale, textValue, cropStart, cropEnd, isCropping,
                   showCropConfirm, nWheel>>
    /\ commit' = NoCommitMade
    /\ Event

SetTextValue(v) ==
    /\ tool = "text"
    /\ v # textValue
    /\ textValue' = v
    /\ Interrupt
    /\ UNCHANGED <<layers, activeLayer, tool, isDrawing, dragStart, isRotating,
                   rotationCenter, rotationAngle, imageScale, cropStart, cropEnd,
                   isCropping, showCropConfirm, layerCanvas, nWheel>>
    /\ commit' = NoCommitMade
    /\ Event

(***************************************************************************)
(* The pointer handlers of the display canvas.                             *)
(***************************************************************************)
DownGesture(pos) ==
    [kind |-> tool, layer |-> activeLayer, p0 |-> pos, samples |-> 0,
     t0 |-> IF activeLayer # Null THEN layers[activeLayer].transform
            ELSE NoTransform,
     img0 |-> IF activeLayer # Null THEN layers[activeLayer].imageData
              ELSE NoImage]

\* the crop dialog, while shown, lies over the display canvas: no pointer-down,
\* pointer-move or wheel event reaches the canvas
CanvasReachable == ~showCropConfirm

handleMouseDown(pos) ==
    /\ CanvasReachable
    /\ isDrawing' = TRUE
    /\ gesture' = DownGesture(pos)
    /\ UNCHANGED <<activeLayer, tool, imageScale, textValue, showCropConfirm, nWheel>>
    /\ Event
    /\ CASE tool \in PaintTools ->
              /\ layerCanvas' =
                     IF layerCanvas.created /\ activeLayer # Null
                     THEN [layerCanvas EXCEPT !.op =
                              IF tool = "brush" THEN "source-over"
                              ELSE "destination-out"]
                     ELSE layerCanvas
              /\ NoCommit
              /\ UNCHANGED <<dragStart, isRotating, rotationCenter, rotationAngle,
                             cropStart, cropEnd, isCropping>>
         [] tool = "crop" ->
              /\ isCropping' = TRUE
              /\ cropStart' = pos
              /\ cropEnd' = pos
              /\ NoCommit
              /\ UNCHANGED <<dragStart, isRotating, rotationCenter, rotationAngle,
                             layerCanvas>>
         [] tool \in {"move", "pan"} ->
              /\ dragStart' = pos
              /\ NoCommit
              /\ UNCHANGED <<isRotating, rotationCenter, rotationAngle, layerCanvas,
                             cropStart, cropEnd, isCropping>>
         [] tool = "rotate" ->
              /\ isRotating' = TRUE
              /\ dragStart' = pos
              /\ rotationCenter' = RotationCenterAt(layers, activeLayer)
              /\ NoCommit
              /\ UNCHANGED <<rotationAngle, layerCanvas, cropStart, cropEnd,
                             isCropping>>
         [] tool = "text" /\ NonBlank(textValue) /\ layerCanvas.created
                /\ activeLayer # Null ->
              /\ layerCanvas.marks < MaxSeg
              /\ Commit(activeLayer, FreshImage,
                        TextCommitTransform(layers[activeLayer]), "text",
                        [layerCanvas EXCEPT !.marks = @ + 1], rotationAngle)
              /\ UNCHANGED <<dragStart, isRotating, rotationCenter, cropStart,
                             cropEnd, isCropping>>
         [] OTHER ->
              /\ NoCommit
              /\ UNCHANGED <<dragStart, isRotating, rotationCenter, rotationAngle,
                             layerCanvas, cropStart, cropEnd, isCropping>>

\* one more pointer-move sample of the recorded gesture
Sampled == IF gesture.kind \in Tools
           THEN [gesture EXCEPT !.samples = IF @ < 2 THEN @ + 1 ELSE @]
           ELSE IF gesture.kind = "switched" THEN gesture
           ELSE NoGesture

handleMouseMove(pos) ==
    /\ CanvasReachable
    /\ isDrawing
    /\ gesture' = Sampled
    /\ UNCHANGED <<activeLayer, tool, isDrawing, imageScale, textValue,
                   showCropConfirm, nWheel, isRotating, rotationCenter, cropStart,
                   isCropping>>
    /\ Event
    /\ CASE tool \in PaintTools /\ layerCanvas.created ->
              /\ layerCanvas.marks < MaxSeg
              /\ layerCanvas' = StrokeSegment(layerCanvas)
              /\ NoCommit
              /\ UNCHANGED <<dragStart, rotationAngle, cropEnd>>
         [] tool = "crop" /\ isCropping /\ cropStart # NoPoint ->
              /\ cropEnd' = pos
              /\ NoCommit
              /\ UNCHANGED <<dragStart, rotationAngle, layerCanvas>>
         [] tool = "pan" /\ dragStart # NoPoint ->
              /\ dragStart' = pos
              /\ NoCommit
              /\ UNCHANGED <<rotationAngle, layerCanvas, cropEnd>>
         [] tool = "move" /\ dragStart # NoPoint /\ activeLayer # Null ->
              LET data == layers[activeLayer]
                  new == MoveNewTransform(TransformOrIdentity(data.transform),
                                          pos, dragStart)
              IN  /\ Abs(new.x) <= MaxShift /\ Abs(new.y) <= MaxShift
                  /\ Commit(activeLayer, TransformToolImage(data), new, "move",
                            layerCanvas, rotationAngle)
                  /\ dragStart' = pos
                  /\ UNCHANGED cropEnd
         [] tool = "rotate" /\ isRotating /\ dragStart # NoPoint
                /\ rotationCenter # NoPoint /\ activeLayer # Null ->
              LET data == layers[activeLayer]
                  newRotation == DragNewRotation(rotationAngle, pos, dragStart,
                                                 rotationCenter)
                  new == RotateNewTransform(TransformOrIdentity(data.transform),
                                            newRotation)
              IN  /\ Abs(newRotation) <= MaxRot
                  /\ Commit(activeLayer, TransformToolImage(data), new,
                            "rotate-drag", layerCanvas, newRotation)
                  /\ dragStart' = pos
                  /\ UNCHANGED cropEnd
         [] OTHER ->
              /\ NoCommit
              /\ UNCHANGED <<dragStart, rotationAngle, layerCanvas, cropEnd>>

\* a selection of any size counts
CropAnySelection(cs, ce) == TRUE

\* width > 10 && height > 10 of the selection
CropBigEnough(cs, ce) == Abs(ce.x - cs.x) > 10 /\ Abs(ce.y - cs.y) > 10

\* bound to onMouseUp and to onMouseLeave
handleMouseUp ==
    /\ isDrawing' = FALSE
    /\ gesture' = Ended(gesture)
    /\ UNCHANGED <<activeLayer, tool, imageScale, textValue, nWheel>>
    /\ Event
    /\ CASE tool \in PaintTools /\ layerCanvas.created /\ activeLayer # Null ->
              /\ Commit(activeLayer, FreshImage,
                        PaintCommitTransform(layers[activeLayer]), "paint",
                        layerCanvas, rotationAngle)
              /\ UNCHANGED <<dragStart, isRotating, rotationCenter, cropStart,
                             cropEnd, isCropping, showCropConfirm>>
         [] tool = "crop" /\ cropStart # NoPoint /\ cropEnd # NoPoint ->
              /\ IF CropBigEnough(cropStart, cropEnd)
                 THEN /\ showCropConfirm' = TRUE
                      /\ UNCHANGED <<isCropping, cropStart, cropEnd>>
                 ELSE /\ isCropping' = FALSE
                      /\ cropStart' = NoPoint
                      /\ cropEnd' = NoPoint
                      /\ UNCHANGED showCropConfirm
              /\ NoCommit
              /\ UNCHANGED <<dragStart, isRotating, rotationCenter, rotationAngle,
                             layerCanvas>>
         [] tool = "pan" \/ (tool = "move" /\ activeLayer # Null) ->
              /\ dragStart' = NoPoint
              /\ NoCommit
              /\ UNCHANGED <<isRotating, rotationCenter, rotationAngle, layerCanvas,
                             cropStart, cropEnd, isCropping, showCropConfirm>>
         [] tool = "rotate" ->
              /\ isRotating' = FALSE
              /\ dragStart' = NoPoint
              /\ rotationCenter' = NoPoint
              /\ NoCommit
              /\ UNCHANGED <<rotationAngle, layerCanvas, cropStart, cropEnd,
                             isCropping, showCropConfirm>>
         [] OTHER ->
              /\ NoCommit
              /\ UNCHANGED <<dragStart, isRotating, rotationCenter, rotationAngle,
                             layerCanvas, cropStart, cropEnd, isCropping,
                             showCropConfirm>>

\* onWheel with the ctrl key, any tool but zoom
onWheelCtrl(up) ==
    /\ CanvasReachable
    /\ tool # "zoom"
    /\ activeLayer # Null
    /\ nWheel < MaxWheel
    /\ nWheel' = nWheel + 1
    /\ imageScale' = WheelNewScale(imageScale, up)
    /\ Interrupt
    /\ IF layers[activeLayer].imageData # NoImage
       THEN Commit(activeLayer, FreshImage, NoTransform, "resize-wheel",
                   layerCanvas, rotationAngle)
       ELSE NoCommit /\ UNCHANGED <<layerCanvas, rotationAngle>>
    /\ UNCHANGED <<activeLayer, tool, isDrawing, dragStart, isRotating,
                   rotationCenter, textValue, cropStart, cropEnd, isCropping,
                   showCropConfirm>>
    /\ Event

(***************************************************************************)
(* The rotate and resize controls, and the crop dialog.                    *)
(***************************************************************************)
SliderAngles == {30}

SliderScales == {Rat(1, 2)}

\* a rotate control that sets the angle to newAngle
RotateControl(newAngle, by) ==
    /\ tool = "rotate"
    /\ activeLayer # Null
    /\ Abs(newAngle) <= MaxRot
    /\ LET data == layers[activeLayer]
       IN  Commit(activeLayer, TransformToolImage(data),
                  RotateNewTransform(TransformOrIdentity(data.transform), newAngle),
                  by, layerCanvas, newAngle)
    /\ gesture' = Pressed(gesture, by, layers[activeLayer])
    /\ UNCHANGED <<activeLayer, tool, isDrawing, dragStart, isRotating,
                   rotationCenter, imageScale, textValue, cropStart, cropEnd,
                   isCropping, showCropConfirm, nWheel>>
    /\ Event

RotateSlider(a) == RotateControl(a, "rotate-slider")

RotateMinus90 == RotateControl(rotationAngle - 90, "rotate-minus90")

RotatePlus90 == RotateControl(rotationAngle + 90, "rotate-plus90")

RotateReset == RotateControl(0, "rotate-reset")

\* a resize control that sets the scale to newScale
ResizeControl(newScale, by) ==
    /\ tool = "resize"
    /\ activeLayer # Null
    /\ imageScale' = newScale
    /\ LET data == layers[activeLayer]
       IN  Commit(activeLayer, data.imageData,
                  ResizeNewTransform(TransformOrIdentity(data.transform), newScale),
                  by, layerCanvas, rotationAngle)
    /\ Interrupt
    /\ UNCHANGED <<activeLayer, tool, isDrawing, dragStart, isRotating,
                   rotationCenter, textValue, cropStart, cropEnd, isCropping,
                   showCropConfirm, nWheel>>
    /\ Event

ResizeSlider(s) == ResizeControl(s, "resize-slider")

ResizeReset == ResizeControl(RInt(1), "resize-reset")

CropClear ==
    /\ showCropConfirm' = FALSE
    /\ isCropping' = FALSE
    /\ cropStart' = NoPoint
    /\ cropEnd' = NoPoint

CropApply ==
    /\ showCropConfirm
    /\ IF cropStart # NoPoint /\ cropEnd # NoPoint /\ activeLayer # Null
       THEN Commit(activeLayer, FreshImage, NoTransform, "crop", layerCanvas,
                   rotationAngle)
       ELSE NoCommit /\ UNCHANGED <<layerCanvas, rotationAngle>>
    /\ CropClear
    /\ Interrupt
    /\ UNCHANGED <<activeLayer, tool, isDrawing, dragStart, isRotating,
                   rotationCenter, imageScale, textValue, nWheel>>
    /\ Event

CropCancel ==
    /\ showCropConfirm
    /\ CropClear
    /\ Interrupt
    /\ NoCommit
    /\ UNCHANGED <<activeLayer, tool, isDrawing, dragStart, isRotating,
                   rotationCenter, rotationAngle, imageScale, textValue,
                   layerCanvas, nWheel>>
    /\ Event

Next ==
    \/ \E t \in Tools : SetTool(t)
    \/ \E id \in LayerIds : SetActiveLayer(id)
    \/ \E v \in {"", "A"} : SetTextValue(v)
    \/ \E pos \in Pos : handleMouseDown(pos)
    \/ \E pos \in Pos : handleMouseMove(pos)
    \/ handleMouseUp
    \/ \E up \in BOOLEAN : onWheelCtrl(up)
    \/ \E a \in SliderAngles : RotateSlider(a)
    \/ RotateMinus90
    \/ RotatePlus90
    \/ RotateReset
    \/ \E sc \in SliderScales : ResizeSlider(sc)
    \/ ResizeReset
    \/ CropApply
    \/ CropCancel

Spec == Init /\ [][Next]_vars

(***************************************************************************)
(* MapSpec: the coordinate mapper applied to drawn inputs.                 *)
(***************************************************************************)
MapScales == {Rat(0, 1), Rat(1, 2), Rat(1, 1), Rat(-2, 1)}

MapRotations == {0, 37, 90, -53, 180, 233}

MapTransforms ==
    {NoTransform} \cup
    [x : {0, 5}, y : {0, -3}, scaleX : MapScales, scaleY : MapScales,
     rotation : MapRotations]

MapSizes == {NoSize, [width |-> 100, height |-> 100], [width |-> 8, height |-> 5]}

MapPoints == {[x |-> RInt(px), y |-> RInt(py)] : px \in {0, 20, 25, 33},
                                               py \in {7, 17, 20}}

MapInit ==
    /\ CanvasInit
    /\ activeLayer = Null /\ tool = "brush"
    /\ \A l \in LayerIds : layers[l].transform = NoTransform /\ layers[l].visible
    /\ layers["L2"].imageData = NoImage
    /\ mT \in MapTransforms
    /\ mSize \in MapSizes
    /\ mP \in MapPoints
    /\ mLayerPos = NoPoint
    /\ mBack = NoPoint
    /\ RenderIdle /\ AiIdle /\ EnhanceIdle

\* a pointer tool maps the pointer position
MapInverse ==
    /\ mLayerPos = NoPoint
    /\ mLayerPos' = getLayerPos(mSize, mT, mP)
    /\ UNCHANGED <<mT, mSize, mP, mBack>>
    /\ UNCHANGED <<canvasVars, renderVars, aiVars, enhanceVars>>

\* the render effect draws the buffer: where the mapped point shows
MapForward ==
    /\ mLayerPos # NoPoint
    /\ mBack = NoPoint
    /\ mSize # NoSize
    /\ IsFinite(mLayerPos.x) /\ IsFinite(mLayerPos.y)
    /\ mBack' = ForwardMap(mSize, mT, mLayerPos)
    /\ UNCHANGED <<mT, mSize, mP, mLayerPos>>
    /\ UNCHANGED <<canvasVars, renderVars, aiVars, enhanceVars>>

MapNext == MapInverse \/ MapForward

MapSpec == MapInit /\ [][MapNext]_vars

(***************************************************************************)
(* Properties.                                                             *)
(***************************************************************************)
\* a brush or eraser gesture that a pointer-up has just ended with a commit
PaintStrokeEnded ==
    /\ gesture.kind = "ended"
    /\ gesture.of.kind \in PaintTools
    /\ commit.by = "paint"

\* C1: the commit of a brush or eraser stroke carries the transform the
\* active layer had at pointer-down, to the layer that was painted on.
C1_PaintKeepsTransform ==
    PaintStrokeEnded =>
        /\ commit.id = gesture.of.layer
        /\ commit.transform = gesture.of.t0

\* a stroke with pointer-moves was committed on a layer moved and rotated
C1_Witness ==
    /\ PaintStrokeEnded
    /\ gesture.of.samples >= 1
    /\ commit.transform = InitTransform

\* a move gesture in progress on a layer
MoveInProgress ==
    /\ gesture.kind = "move"
    /\ gesture.layer # Null
    /\ isDrawing

\* C2: throughout a move gesture the layer's translate is its translate at
\* pointer-down plus the pointer delta from pointer-down to the last sample,
\* its scale and rotation are those at pointer-down, and the layer and every
\* commit of the gesture hold the buffer the layer held at pointer-down.
C2_MoveAddsDelta ==
    MoveInProgress =>
        LET t == TransformOrIdentity(layers[gesture.layer].transform)
            t0 == TransformOrIdentity(gesture.t0)
        IN  /\ t.x = t0.x + (dragStart.x - gesture.p0.x)
            /\ t.y = t0.y + (dragStart.y - gesture.p0.y)
            /\ t.scaleX = t0.scaleX /\ t.scaleY = t0.scaleY
            /\ t.rotation = t0.rotation
            /\ layers[gesture.layer].imageData = gesture.img0
            /\ (commit.by = "move" => commit.imageData = gesture.img0)

\* several samples in, the pointer is away from where it went down
C2_Witness ==
    /\ MoveInProgress
    /\ gesture.samples = 2
    /\ dragStart # gesture.p0
    /\ commit.by = "move"
    /\ gesture.img0 # NoImage

\* C3: a resize commit, by the slider or by ctrl+wheel, carries the layer's
\* transform with scaleX and scaleY set to the new scale factor and nothing
\* else changed, and the layer's pixel buffer.
C3_ResizeWritesScale ==
    [][commit'.by \in {"resize-slider", "resize-wheel"} =>
          /\ commit'.imageData = layers[activeLayer].imageData
          /\ commit'.transform =
                 [TransformOrIdentity(layers[activeLayer].transform)
                      EXCEPT !.scaleX = imageScale', !.scaleY = imageScale']]_vars

MoveRotateCommits == {"move", "rotate-drag", "rotate-slider", "rotate-minus90",
                      "rotate-plus90", "rotate-reset"}

\* C4: every commit of the move tool and of the rotate tool goes to the
\* active layer and carries the buffer that layer holds at that moment, with
\* a transform.
C4_MoveRotateKeepBuffer ==
    [][commit'.by \in MoveRotateCommits =>
          /\ commit'.id = activeLayer
          /\ commit'.imageData = layers[activeLayer].imageData
          /\ commit'.transform # NoTransform]_vars

\* a rotate control has turned a layer that has a buffer
C4_Witness ==
    /\ commit.by \in {"rotate-drag", "rotate-plus90"}
    /\ commit.imageData # NoImage
    /\ commit.transform.rotation \notin {0, 45}

\* C5: a brush, eraser or text gesture commits only when there is an active
\* layer and it has a pixel buffer.
C5_PaintInertWithoutBuffer ==
    [][commit'.by \in {"paint", "text"} =>
          /\ activeLayer # Null
          /\ layers[activeLayer].imageData # NoImage]_vars

NonZeroScale(transform) ==
    LET t == TransformOrIdentity(transform)
    IN  t.scaleX[1] # 0 /\ t.scaleY[1] # 0

\* C6: for a non-zero scale, the point a pointer position maps to in layer
\* space is drawn by the render transform at that pointer position.
C6_RoundTrip ==
    (mBack # NoPoint /\ NonZeroScale(mT)) => mBack = mP

\* a round trip through a rotated, scaled and translated layer
C6_Witness ==
    /\ mBack # NoPoint
    /\ mT # NoTransform
    /\ mT.rotation = 37 /\ mT.scaleX = Rat(1, 2) /\ mT.scaleY = Rat(-2, 1)
    /\ mT.x = 5
    /\ mLayerPos # mP
    /\ mBack = mP

\* C7: whatever the scale, zero included, the inverse mapping yields finite
\* layer-local coordinates.
C7_FiniteCoordinates ==
    mLayerPos # NoPoint => IsFinite(mLayerPos.x) /\ IsFinite(mLayerPos.y)

\* the display center plus the transform's translate
TransformedCenter(transform) ==
    LET t == TransformOrIdentity(transform)
    IN  [x |-> RAdd(Rat(CanvasW, 2), RInt(t.x)),
         y |-> RAdd(Rat(CanvasH, 2), RInt(t.y))]

\* C8: for every rotation and non-zero scale, the display center plus the
\* translate maps to the center of the buffer.
C8_CenterMapsToCenter ==
    (/\ mLayerPos # NoPoint
     /\ mSize # NoSize
     /\ NonZeroScale(mT)
     /\ mP = TransformedCenter(mT)) =>
        mLayerPos = [x |-> Rat(mSize.width, 2), y |-> Rat(mSize.height, 2)]

\* the center of a rotated, scaled and translated layer was mapped
C8_Witness ==
    /\ mLayerPos # NoPoint
    /\ mSize = [width |-> 8, height |-> 5]
    /\ mT # NoTransform
    /\ mT.rotation = 233 /\ mT.scaleX = Rat(1, 2) /\ mT.x = 5 /\ mT.y = -3
    /\ mP = TransformedCenter(mT)
    /\ mLayerPos = [x |-> Rat(4, 1), y |-> Rat(5, 2)]

\* C9: a rotate by the buttons or by drag starts from the layer's rotation,
\* which is 0 for a layer without a transform: the committed rotation is that
\* rotation plus the step, or plus the angle swept.
C9_AbsentTransformIsIdentity ==
    [][commit'.by \in {"rotate-minus90", "rotate-plus90", "rotate-drag"} =>
          LET start == TransformOrIdentity(layers[activeLayer].transform).rotation
              new == commit'.transform.rotation
          IN  /\ commit'.by = "rotate-minus90" => new = start - 90
              /\ commit'.by = "rotate-plus90" => new = start + 90
              /\ commit'.by = "rotate-drag" =>
                     new - start = rotationAngle' - rotationAngle]_vars

\* C10: after four consecutive presses of +90 (or of -90) the layer's rotation
\* is its starting rotation modulo 360, with translate, scale and buffer as at
\* the start.
C10_FourQuarterTurns ==
    (gesture.kind = "presses" /\ gesture.n = 4) =>
        LET t == TransformOrIdentity(layers[activeLayer].transform)
        IN  /\ (t.rotation - gesture.start.rotation) % 360 = 0
            /\ t.x = gesture.start.x /\ t.y = gesture.start.y
            /\ t.scaleX = gesture.start.scaleX /\ t.scaleY = gesture.start.scaleY
            /\ layers[activeLayer].imageData = gesture.img

(***************************************************************************)
(* The pointer events of one gesture, told apart by the gesture record.    *)
(***************************************************************************)
\* onMouseDown: a gesture record starts
PointerDownStep ==
    nEvents' # nEvents /\ gesture'.kind \in Tools /\ gesture'.samples = 0

\* onMouseMove during the recorded gesture
PointerMoveStep ==
    /\ nEvents' # nEvents
    /\ gesture.kind \in Tools /\ gesture'.kind \in Tools
    /\ gesture'.samples > 0

\* onMouseUp or onMouseLeave ending the recorded gesture
PointerUpStep == nEvents' # nEvents /\ gesture'.kind = "ended"

\* C11: throughout a rotate gesture the rotation center is the display center
\* plus the translate the active layer had at pointer-down (the raw display
\* center when the layer had no transform, or there was no active layer),
\* whatever pointer-move samples have been handled.
C11_RotationCenterFixed ==
    (gesture.kind = "rotate" /\ isDrawing) =>
        /\ isRotating
        /\ rotationCenter =
               Point(CanvasW \div 2 + TransformOrIdentity(gesture.t0).x,
                     CanvasH \div 2 + TransformOrIdentity(gesture.t0).y)

\* two samples into a rotate drag of a translated layer
C11_Witness ==
    /\ gesture.kind = "rotate" /\ isDrawing
    /\ gesture.samples = 2
    /\ gesture.t0 = InitTransform
    /\ rotationCenter = Point(40, 20)
    /\ commit.by = "rotate-drag"

\* C12: every pointer-move sample of a rotate drag on an active layer commits
\* the layer's transform with its rotation advanced by the angle swept around
\* the rotation center since the previous sample, and the pointer-up that ends
\* the drag commits nothing.
C12_RotateDragCommitsEachSample ==
    [][/\ (PointerMoveStep /\ gesture.kind = "rotate" /\ gesture.layer # Null) =>
              /\ commit'.by = "rotate-drag"
              /\ commit'.transform.rotation =
                     TransformOrIdentity(layers[activeLayer].transform).rotation
                     + Atan2Deg(dragStart'.y - rotationCenter.y,
                                dragStart'.x - rotationCenter.x)
                     - Atan2Deg(dragStart.y - rotationCenter.y,
                                dragStart.x - rotationCenter.x)
       /\ (PointerUpStep /\ gesture.kind = "rotate") => commit'.by = "none"]_vars

\* C13: a pointer-down with the text tool, a non-blank text and an active
\* layer, once the layer canvas exists, commits at once to the active layer
\* with the layer's transform; the pointer-moves and the pointer-up of that
\* gesture commit nothing.
C13_TextCommitsOnce ==
    [][/\ (/\ PointerDownStep
           /\ tool = "text" /\ NonBlank(textValue) /\ activeLayer # Null
           /\ layerCanvas.created) =>
              /\ commit'.by = "text"
              /\ commit'.id = activeLayer
              /\ commit'.transform = layers[activeLayer].transform
       /\ (gesture.kind = "text" /\ (PointerMoveStep \/ PointerUpStep)) =>
              commit'.by = "none"]_vars

\* C13 for every active layer: a pointer-down with the text tool, a non-blank
\* text and an active layer commits at once with the layer's transform,
\* whether or not the layer canvas exists, and the pointer-moves and the
\* pointer-up of that gesture commit nothing.
C13_TextCommitsOnceAnyLayer ==
    [][/\ (/\ PointerDownStep
           /\ tool = "text" /\ NonBlank(textValue) /\ activeLayer # Null) =>
              /\ commit'.by = "text"
              /\ commit'.id = activeLayer
              /\ commit'.transform = layers[activeLayer].transform
       /\ (gesture.kind = "text" /\ (PointerMoveStep \/ PointerUpStep)) =>
              commit'.by = "none"]_vars

\* a text gesture with a pointer-move has ended, its one commit stored with
\* the transform the layer had
C13_Witness ==
    /\ gesture.kind = "ended"
    /\ gesture.of.kind = "text"
    /\ gesture.of.samples >= 1
    /\ gesture.of.t0 = InitTransform
    /\ layers[gesture.of.layer].imageData # gesture.of.img0
    /\ layers[gesture.of.layer].transform = InitTransform
    /\ commit.by = "none"

\* C14: a brush or eraser commit happens only on the step that takes the
\* gesture from active (pointer down) to idle.
C14_PaintCommitOnlyLeavingActive ==
    [][commit'.by = "paint" => isDrawing /\ ~isDrawing']_vars

C17_CropCommitsSelection ==
    [][commit'.by = "crop" =>
           /\ commit'.id = activeLayer
           /\ commit'.transform = NoTransform
           /\ commit'.read.surface = "display"
           /\ commit'.read.region =
                  [x |-> IF cropStart.x < cropEnd.x THEN cropStart.x ELSE cropEnd.x,
                   y |-> IF cropStart.y < cropEnd.y THEN cropStart.y ELSE cropEnd.y,
                   width |-> Abs(cropEnd.x - cropStart.x),
                   height |-> Abs(cropEnd.y - cropStart.y)]
           /\ commit'.read.width = commit'.read.region.width
           /\ commit'.read.height = commit'.read.region.height]_vars

(***************************************************************************)
(* RenderSpec: the render effect (Canvas.tsx 94-143) run at mount and      *)
(* after every change of the layers or of the active layer.  A call inside *)
(* its try block may throw; which one does is the environment's choice.    *)
(***************************************************************************)
\* the active layer is there, visible and has a buffer
Composites(ls, al) == al # Null /\ ls[al].visible /\ ls[al].imageData # NoImage

\* the calls of the try block that can throw: the load of the layer canvas,
\* before ctx.save(), and the draw of the layer canvas, after it
Throws == {"none", "putImageData", "drawImage"}

\* ctx.translate, ctx.rotate, ctx.scale of the render effect
AppliedTransform(transform) ==
    LET t == TransformOrIdentity(transform)
    IN  [t EXCEPT !.scaleX = RAbs(@), !.scaleY = RAbs(@)]

\* one run of the render effect on context c and layer canvas lc: the frame
\* it leaves on the display, the context and the layer canvas after it
RenderEffect(ls, al, c, lc, thrown) ==
    LET \* fillRect(0, 0, width, height) covers the canvas only when no
        \* transform is applied to the context
        white == c.transform = <<>>
        reset == [c EXCEPT !.globalAlpha = RInt(1), !.op = "source-over"]
        blank == [white |-> white, drawn |-> NothingDrawn, thrown |-> thrown]
    IN  IF ~Composites(ls, al)
        THEN [frame |-> blank, ctx |-> reset, layerCanvas |-> lc]
        ELSE CASE thrown = "putImageData" ->
                      [frame |-> blank, ctx |-> reset,
                       layerCanvas |-> [created |-> TRUE, loaded |-> NoImage,
                                        marks |-> 0, op |-> "source-over"]]
               [] thrown = "drawImage" ->
                      [frame |-> blank,
                       ctx |-> [reset EXCEPT
                                  !.saved = @ + 1,
                                  !.transform =
                                      Append(@, AppliedTransform(ls[al].transform))],
                       layerCanvas |-> RenderLayerCanvas(ls, al, lc)]
               [] OTHER ->
                      [frame |-> [white |-> white,
                                  drawn |-> [layer |-> al,
                                             imageData |-> ls[al].imageData,
                                             through |-> Append(c.transform,
                                                 AppliedTransform(ls[al].transform)),
                                             globalAlpha |-> ls[al].opacity,
                                             op |-> ls[al].blendMode],
                                  thrown |-> "none"],
                       ctx |-> reset,
                       layerCanvas |-> RenderLayerCanvas(ls, al, lc)]

\* the throws a render of ls, al can meet
ThrowsOf(ls, al, c) ==
    IF ~Composites(ls, al) THEN {"none"}
    ELSE IF Len(c.transform) < MaxLeak THEN Throws
    ELSE Throws \ {"drawImage"}

RenderTransform ==
    [x |-> -5, y |-> 3, scaleX |-> RInt(-2), scaleY |-> Rat(1, 2), rotation |-> 90]

RenderInit ==
    /\ layers \in [LayerIds -> [imageData : {NoImage, 1, 2},
                                transform : {NoTransform, InitTransform,
                                             RenderTransform},
                                visible : BOOLEAN,
                                opacity : {Rat(1, 2), RInt(1)},
                                blendMode : {"source-over", "multiply", "screen"}]]
    /\ layers["L1"].imageData = 1
    /\ layers["L1"].transform # RenderTransform
    /\ layers["L1"].opacity = Rat(1, 2)
    /\ layers["L1"].blendMode # "screen"
    /\ layers["L2"].imageData # 1
    /\ layers["L2"].transform = RenderTransform
    /\ layers["L2"].opacity = RInt(1)
    /\ layers["L2"].blendMode = "screen"
    /\ activeLayer \in LayerIds \cup {Null}
    /\ tool = "brush"
    /\ rotationAngle = SyncRotation(layers, activeLayer, 0)
    /\ ToolIdle
    /\ nRenders = 0
    /\ \E thrown \in ThrowsOf(layers, activeLayer, NewContext) :
           LET r == RenderEffect(layers, activeLayer, NewContext, NewLayerCanvas,
                                 thrown)
           IN  frame = r.frame /\ ctx = r.ctx /\ layerCanvas = r.layerCanvas
    /\ MapIdle /\ AiIdle /\ EnhanceIdle

\* the re-render that a change of props brings: both effects run
ReRender(ls, al, thrown) ==
    /\ nRenders < MaxRenders
    /\ nRenders' = nRenders + 1
    /\ thrown \in ThrowsOf(ls, al, ctx)
    /\ LET r == RenderEffect(ls, al, ctx, layerCanvas, thrown)
       IN  frame' = r.frame /\ ctx' = r.ctx /\ layerCanvas' = r.layerCanvas
    /\ rotationAngle' = SyncRotation(ls, al, rotationAngle)
    /\ UNCHANGED <<tool, isDrawing, dragStart, isRotating, rotationCenter,
                   imageScale, textValue, cropStart, cropEnd, isCropping,
                   showCropConfirm, commit, nWheel, nEvents, gesture>>
    /\ UNCHANGED <<mapVars, aiVars, enhanceVars>>

\* the active layer changes
RenderOnActiveLayer(id, thrown) ==
    /\ id # activeLayer
    /\ activeLayer' = id
    /\ UNCHANGED layers
    /\ ReRender(layers, id, thrown)

\* the layer list changes: a layer is shown or hidden
RenderOnLayers(l, thrown) ==
    /\ layers' = [layers EXCEPT ![l].visible = ~@]
    /\ UNCHANGED activeLayer
    /\ ReRender(layers', activeLayer, thrown)

RenderNext ==
    \/ \E id \in LayerIds \cup {Null}, thrown \in Throws :
           RenderOnActiveLayer(id, thrown)
    \/ \E l \in LayerIds, thrown \in Throws : RenderOnLayers(l, thrown)

RenderSpec == RenderInit /\ [][RenderNext]_vars

\* C16: after every render the display is white all over with at most one
\* layer drawn on it: the active layer, visible and with a buffer, through its
\* own forward transform alone, with its opacity and its blend mode.
C16_OnlyActiveLayerRendered ==
    /\ frame.white
    /\ frame.drawn # NothingDrawn =>
           /\ Composites(layers, activeLayer)
           /\ frame.drawn.layer = activeLayer
           /\ frame.drawn.imageData = layers[activeLayer].imageData
           /\ frame.drawn.through =
                  <<AppliedTransform(layers[activeLayer].transform)>>
           /\ frame.drawn.globalAlpha = layers[activeLayer].opacity
           /\ frame.drawn.op = layers[activeLayer].blendMode

\* C20: after a render in which the composite threw, the frame is white with
\* nothing drawn, and after every render the display context has globalAlpha
\* 1, composite operation source-over, no transform applied and no state left
\* on its stack.
C20_FailedCompositeLeavesCleanContext ==
    /\ frame.thrown # "none" => frame.white /\ frame.drawn = NothingDrawn
    /\ ctx.globalAlpha = RInt(1)
    /\ ctx.op = "source-over"
    /\ ctx.transform = <<>>
    /\ ctx.saved = 0

(***************************************************************************)
(* AiSpec: the requests of AIPanel.tsx and ChatBot.tsx to the AI service.  *)
(* A handler runs up to its await in one step; the response, or the        *)
(* failure, of a request in flight is a later step.                        *)
(***************************************************************************)
ProcessTypes == {"text-to-image", "remove-background", "enhance-image"}

\* process buttons that the processing flag does not disable
ProcessDisabledNoFlag(type) ==
    IF type = "text-to-image" THEN ~NonBlank(textPrompt) ELSE ~imageContent

\* the disabled attribute of the button that calls handleAIProcess(type)
ProcessDisabled(type) ==
    IF type = "text-to-image"
    THEN ~NonBlank(textPrompt) \/ isProcessing
    ELSE ~imageContent \/ isProcessing

\* one more request goes out
Issue(kind) ==
    /\ nSent < MaxRequests
    /\ nSent' = nSent + 1
    /\ inFlight' = [inFlight EXCEPT ![kind] = @ + 1]
    /\ settled' = NoneSettled

\* a request in flight gets its response or fails
Settle(kind, outcome) ==
    /\ inFlight[kind] > 0
    /\ inFlight' = [inFlight EXCEPT ![kind] = @ - 1]
    /\ settled' = [kind |-> kind, outcome |-> outcome]
    /\ UNCHANGED nSent

\* the step that goes with no request
NoRequest == UNCHANGED <<inFlight, nSent>> /\ settled' = NoneSettled

SetTextPrompt(v) ==
    /\ v # textPrompt
    /\ textPrompt' = v
    /\ NoRequest
    /\ UNCHANGED <<isProcessing, captionProcessing, captionFile, imageContent,
                   messages, input, isLoading>>
    /\ UNCHANGED <<progressVars, chatHistory>>
    /\ UNCHANGED <<canvasVars, mapVars, renderVars, enhanceVars>>

\* the active layer gains or loses non-white pixels
SetImageContent(b) ==
    /\ b # imageContent
    /\ imageContent' = b
    /\ NoRequest
    /\ UNCHANGED <<isProcessing, captionProcessing, captionFile, textPrompt,
                   messages, input, isLoading>>
    /\ UNCHANGED <<progressVars, chatHistory>>
    /\ UNCHANGED <<canvasVars, mapVars, renderVars, enhanceVars>>

\* handleCaptionFileSelect, and the button that removes the image
SetCaptionFile(b) ==
    /\ b # captionFile
    /\ captionFile' = b
    /\ NoRequest
    /\ UNCHANGED <<isProcessing, captionProcessing, textPrompt, imageContent,
                   messages, input, isLoading>>
    /\ UNCHANGED <<progressVars, chatHistory>>
    /\ UNCHANGED <<canvasVars, mapVars, renderVars, enhanceVars>>

\* a click on an enabled process button: handleAIProcess up to its await
handleAIProcess(type) ==
    /\ ~ProcessDisabled(type)
    /\ type = "text-to-image" => NonBlank(textPrompt)
    /\ type # "text-to-image" => imageContent
    /\ isProcessing' = TRUE
    /\ processType' = type
    /\ IF type = "text-to-image"
       THEN /\ progressMessage' = "Loading AI model..."
            /\ progress' = 20
            /\ progressInterval' = progressInterval + 1
       ELSE /\ progressMessage' = "Processing image..."
            /\ progress' = 50
            /\ UNCHANGED progressInterval
    /\ Issue("process")
    /\ UNCHANGED <<captionProcessing, captionFile, textPrompt, imageContent,
                   messages, input, isLoading, resetTimers, chatHistory>>
    /\ UNCHANGED <<canvasVars, mapVars, renderVars, enhanceVars>>

\* the flag stays set when the request has failed
FlagKeptOnFailure(outcome) ==
    outcome \in {"rejected", "failed", "network", "server", "other"}

\* finally { setIsProcessing(false) }, and the same for captionProcessing and
\* isLoading: the flag after the request has ended
FlagAfterSettle(outcome) == FALSE

\* handleAIProcess from its await on: the rest of the try block when the
\* promise resolved, the catch block when it rejected, then the finally
ProcessContinues(outcome) ==
    /\ IF outcome = "resolved"
       THEN /\ progressInterval' = IF processType = "text-to-image"
                                   THEN progressInterval - 1
                                   ELSE progressInterval
            /\ progress' = 100
            /\ progressMessage' = IF processType = "text-to-image"
                                  THEN "Image generated successfully!"
                                  ELSE "Processing complete!"
            /\ resetTimers' = resetTimers + 1
       ELSE /\ progressMessage' = "Processing failed"
            /\ UNCHANGED <<progress, progressInterval, resetTimers>>
    /\ isProcessing' = FlagAfterSettle(outcome)

\* the promise of onAIProcess settles
ProcessSettles(outcome) ==
    /\ Settle("process", outcome)
    /\ processType' = "none"
    /\ ProcessContinues(outcome)
    /\ UNCHANGED <<captionProcessing, captionFile, textPrompt, imageContent,
                   messages, input, isLoading, chatHistory>>
    /\ UNCHANGED <<canvasVars, mapVars, renderVars, enhanceVars>>

\* a tick of a running setInterval timer: setProgress(prev => ...)
IntervalTick ==
    /\ progressInterval > 0
    /\ progress' = IF progress < 80 THEN progress + 5 ELSE progress
    /\ NoRequest
    /\ UNCHANGED <<isProcessing, captionProcessing, captionFile, textPrompt,
                   imageContent, messages, input, isLoading, progressMessage,
                   progressInterval, resetTimers, processType, chatHistory>>
    /\ UNCHANGED <<canvasVars, mapVars, renderVars, enhanceVars>>

\* a setTimeout reset comes due
ResetFires ==
    /\ resetTimers > 0
    /\ resetTimers' = resetTimers - 1
    /\ progress' = 0
    /\ progressMessage' = ""
    /\ NoRequest
    /\ UNCHANGED <<isProcessing, captionProcessing, captionFile, textPrompt,
                   imageContent, messages, input, isLoading, progressInterval,
                   processType, chatHistory>>
    /\ UNCHANGED <<canvasVars, mapVars, renderVars, enhanceVars>>

\* a click on the enabled caption button: handleGenerateCaption up to its await
handleGenerateCaption ==
    /\ captionFile /\ ~captionProcessing
    /\ captionProcessing' = TRUE
    /\ Issue("caption")
    /\ UNCHANGED <<isProcessing, captionFile, textPrompt, imageContent,
                   messages, input, isLoading>>
    /\ UNCHANGED <<progressVars, chatHistory>>
    /\ UNCHANGED <<canvasVars, mapVars, renderVars, enhanceVars>>

CaptionSettles(outcome) ==
    /\ Settle("caption", outcome)
    /\ captionProcessing' = FlagAfterSettle(outcome)
    /\ UNCHANGED <<isProcessing, captionFile, textPrompt, imageContent,
                   messages, input, isLoading>>
    /\ UNCHANGED <<progressVars, chatHistory>>
    /\ UNCHANGED <<canvasVars, mapVars, renderVars, enhanceVars>>

\* the chat input, disabled while loading
SetInput(v) ==
    /\ ~isLoading
    /\ v # input
    /\ input' = v
    /\ NoRequest
    /\ UNCHANGED <<isProcessing, captionProcessing, captionFile, textPrompt,
                   imageContent, messages, isLoading>>
    /\ UNCHANGED <<progressVars, chatHistory>>
    /\ UNCHANGED <<canvasVars, mapVars, renderVars, enhanceVars>>

\* for (let i = from; i < messages.length - 1; i += 2)
\*     if (i + 1 < messages.length) history.push({user, assistant})
\* with messages[i] of the code at msgs[i + 1]
RECURSIVE HistoryLoop(_, _)
HistoryLoop(msgs, i) ==
    IF i < Len(msgs) - 1
    THEN (IF i + 1 < Len(msgs)
          THEN <<[user |-> msgs[i + 1].text, assistant |-> msgs[i + 2].text]>>
          ELSE <<>>) \o HistoryLoop(msgs, i + 2)
    ELSE <<>>

\* a history that starts at the greeting
ChatHistoryFromGreeting(msgs) == HistoryLoop(msgs, 0)

\* the history sendMessage builds from the messages of its render
ChatHistory(msgs) == HistoryLoop(msgs, 1)

\* sendMessage, by the send button or the Enter key, up to its await
sendMessage ==
    /\ IF ~NonBlank(input) \/ isLoading
       THEN /\ NoRequest
            /\ UNCHANGED <<messages, input, isLoading, chatHistory>>
       ELSE /\ messages' = Append(messages, [text |-> input, isUser |-> TRUE])
            /\ input' = ""
            /\ isLoading' = TRUE
            /\ chatHistory' = ChatHistory(messages)
            /\ Issue("chat")
    /\ UNCHANGED <<isProcessing, captionProcessing, captionFile, textPrompt,
                   imageContent, progressVars>>
    /\ UNCHANGED <<canvasVars, mapVars, renderVars, enhanceVars>>

\* how a chat request ends: a response with or without a message, a network
\* error, an error response of the server, any other error
ChatOutcomes == {"message", "empty", "network", "server", "other"}

ChatFailures == {"network", "server", "other"}

\* a failure that puts nothing in the transcript
ChatRepliesSilentOnFailure(outcome) ==
    IF outcome \in ChatFailures THEN <<>>
    ELSE <<[text |-> outcome, isUser |-> FALSE]>>

\* the messages sendMessage appends when its request has ended
ChatReplies(outcome) ==
    <<[text |-> CASE outcome = "message" -> "response.data.message"
                  [] outcome = "empty" -> "No response received"
                  [] outcome = "network" -> "Cannot connect to AI service"
                  [] outcome = "server" -> "Server error"
                  [] OTHER -> "Sorry, I encountered an error",
       isUser |-> FALSE]>>

\* sendMessage from its await on: the reply or the catch, then the finally
ChatSettles(outcome) ==
    /\ Settle("chat", outcome)
    /\ messages' = messages \o ChatReplies(outcome)
    /\ isLoading' = FlagAfterSettle(outcome)
    /\ UNCHANGED <<isProcessing, captionProcessing, captionFile, textPrompt,
                   imageContent, input, progressVars, chatHistory>>
    /\ UNCHANGED <<canvasVars, mapVars, renderVars, enhanceVars>>

AiInit ==
    /\ CanvasInit
    /\ activeLayer = Null /\ tool = "brush"
    /\ \A l \in LayerIds : layers[l].transform = NoTransform /\ layers[l].visible
    /\ layers["L2"].imageData = NoImage
    /\ MapIdle /\ RenderIdle /\ AiIdle /\ EnhanceIdle

AiNext ==
    \/ \E v \in {"", "p"} : SetTextPrompt(v)
    \/ \E b \in BOOLEAN : SetImageContent(b)
    \/ \E b \in BOOLEAN : SetCaptionFile(b)
    \/ \E type \in ProcessTypes : handleAIProcess(type)
    \/ \E outcome \in {"resolved", "rejected"} : ProcessSettles(outcome)
    \/ handleGenerateCaption
    \/ \E outcome \in {"caption", "failed"} : CaptionSettles(outcome)
    \/ \E v \in {"", "hi", "yo"} : SetInput(v)
    \/ sendMessage
    \/ IntervalTick
    \/ ResetFires
    \/ \E outcome \in ChatOutcomes : ChatSettles(outcome)

AiSpec == AiInit /\ [][AiNext]_vars

\* C18: at most one process request, one caption request and one chat request
\* are in flight at any time, and while one is, its flag is set.
C18_OneRequestInFlight ==
    /\ inFlight.process <= 1 /\ (inFlight.process = 1 => isProcessing)
    /\ inFlight.caption <= 1 /\ (inFlight.caption = 1 => captionProcessing)
    /\ inFlight.chat <= 1 /\ (inFlight.chat = 1 => isLoading)

\* a process request is in flight after an earlier one has ended, with the
\* prompt and the image there for every process button, and a caption and a
\* chat request in flight beside it
C18_Witness ==
    /\ nSent >= 3
    /\ inFlight.process = 1 /\ isProcessing
    /\ NonBlank(textPrompt) /\ imageContent
    /\ inFlight.chat + inFlight.caption >= 1

\* C19: the step in which a chat request fails appends one assistant message,
\* the error text, right after the user's message, clears the loading flag
\* and sends nothing: no request is in flight after it.
C19_ChatFailureSurfacedOnce ==
    [][(settled'.kind = "chat" /\ settled'.outcome \in ChatFailures) =>
           /\ Len(messages') = Len(messages) + 1
           /\ messages[Len(messages)].isUser
           /\ SubSeq(messages', 1, Len(messages)) = messages
           /\ ~messages'[Len(messages')].isUser
           /\ messages'[Len(messages')].text \in
                  {"Cannot connect to AI service", "Server error",
                   "Sorry, I encountered an error"}
           /\ isLoading /\ ~isLoading'
           /\ nSent' = nSent
           /\ inFlight'.chat = 0]_vars

\* a chat request has failed on a network error, after an answered one
C19_Witness ==
    /\ settled = [kind |-> "chat", outcome |-> "network"]
    /\ Len(messages) = 5
    /\ messages[4].isUser
    /\ messages[5] = [text |-> "Cannot connect to AI service", isUser |-> FALSE]
    /\ ~isLoading


(***************************************************************************)
(* Spec: the editing surface, the active layer and the gesture state.      *)
(***************************************************************************)
\* C21: a brush, eraser or text commit to a layer carries a buffer read back
\* from a layer canvas that was last loaded from that layer's own current
\* buffer.
C21_CommitReadFromOwnBuffer ==
    [][commit'.by \in {"paint", "text"} =>
           /\ commit'.read.surface = "layerCanvas"
           /\ layerCanvas.loaded = layers[commit'.id].imageData]_vars

\* C22: when the active layer was changed during a brush or eraser stroke on
\* a layer, the pointer-up commits the stroke to the layer the stroke began
\* on, with every segment drawn before the change, and leaves the newly
\* active layer as it is.
C22_StrokeStaysOnItsLayer ==
    [][(/\ gesture.kind = "switched" /\ gesture'.kind = "ended-switched"
        /\ gesture.of.layer # Null) =>
           /\ commit'.by = "paint"
           /\ commit'.id = gesture.of.layer
           /\ layerCanvas.marks >= gesture.of.samples
           /\ layers'[activeLayer] = layers[activeLayer]]_vars

\* C23: after a change of the active layer or of the layers, the angle the
\* rotate slider, the -90 and +90 buttons and the rotate drag work from is
\* the rotation of the active layer's transform (0 for a layer without one).
C23_AngleFollowsActiveLayer ==
    [][((activeLayer' # activeLayer \/ layers' # layers) /\ activeLayer' # Null) =>
           rotationAngle' =
               TransformOrIdentity(layers'[activeLayer'].transform).rotation]_vars

\* cropStart, cropEnd, isCropping and showCropConfirm as CropClear leaves them
CropCleared ==
    /\ cropStart = NoPoint /\ cropEnd = NoPoint
    /\ ~isCropping /\ ~showCropConfirm

\* C28: the pointer events of a crop gesture commit nothing; the dialog comes
\* up only on a pointer-up with a selection wider than 10 and taller than 10;
\* a pointer-up with a smaller selection clears the crop state; closing the
\* dialog clears the crop state, and only Apply commits, to the active layer.
C28_CropOnlyThroughApply ==
    [][/\ ((PointerDownStep /\ gesture'.kind = "crop")
             \/ ((PointerMoveStep \/ PointerUpStep) /\ gesture.kind = "crop")) =>
              commit'.by = "none" /\ layers' = layers
       /\ (~showCropConfirm /\ showCropConfirm') =>
              /\ tool = "crop" /\ cropStart # NoPoint /\ cropEnd # NoPoint
              /\ Abs(cropEnd.x - cropStart.x) > 10
              /\ Abs(cropEnd.y - cropStart.y) > 10
              /\ ~isDrawing'
       /\ (/\ PointerUpStep /\ gesture.kind = "crop"
           /\ ~(/\ Abs(cropEnd.x - cropStart.x) > 10
                /\ Abs(cropEnd.y - cropStart.y) > 10)) => CropCleared'
       /\ (showCropConfirm /\ ~showCropConfirm') =>
              /\ CropCleared'
              /\ commit'.by \in {"crop", "none"}
       /\ commit'.by = "crop" =>
              /\ showCropConfirm /\ CropCleared'
              /\ commit'.id = activeLayer]_vars

\* the dialog was confirmed: the crop is committed and the crop state cleared
C28_Witness ==
    /\ commit.by = "crop"
    /\ CropCleared
    /\ tool = "crop"

\* C30: a pointer-up or pointer-leave that ends a press leaves no drag
\* origin, no rotating flag and no rotation center, whatever the tool is.
C30_PointerUpClearsGestureState ==
    [][(isDrawing /\ ~isDrawing') =>
           /\ dragStart' = NoPoint
           /\ ~isRotating'
           /\ rotationCenter' = NoPoint]_vars


(***************************************************************************)
(* AiSpec: the flags, the progress bar and the chat history.               *)
(***************************************************************************)
\* C25: when a process, caption or chat request has settled, with a result
\* or with a failure, its flag is clear and the controls the flag disables
\* are enabled again for whatever they need (prompt, image content, file).
C25_SettledRequestClearsFlag ==
    /\ settled.kind = "process" =>
           /\ ~isProcessing
           /\ NonBlank(textPrompt) => ~ProcessDisabled("text-to-image")
           /\ imageContent => /\ ~ProcessDisabled("remove-background")
                              /\ ~ProcessDisabled("enhance-image")
    /\ settled.kind = "caption" => ~captionProcessing
    /\ settled.kind = "chat" => ~isLoading

\* three requests have been issued and have settled, the last one a process
\* request that failed
C25_Witness ==
    /\ settled = [kind |-> "process", outcome |-> "rejected"]
    /\ nSent = 3
    /\ inFlight = [process |-> 0, caption |-> 0, chat |-> 0]
    /\ ~isProcessing /\ ~captionProcessing /\ ~isLoading

\* C26: no simulated-progress timer is running unless a text-to-image
\* request is in flight.
C26_ProgressTimerStopped ==
    processType # "text-to-image" => progressInterval = 0

\* C27: from one step to the next of a request in flight the progress does
\* not decrease and the progress message is not blank.
C27_ProgressMonotoneInFlight ==
    [][(isProcessing /\ isProcessing') =>
           /\ progress' >= progress
           /\ progressMessage' # ""]_vars

\* C29: the history sent with a chat request is the sequence of the earlier
\* exchanges in order, the k-th pairing the k-th user message with the
\* assistant message that followed it; every message but the greeting and
\* the one being sent is in it, in its own role.
C29_HistoryIsEarlierExchanges ==
    [][inFlight'.chat = inFlight.chat + 1 =>
           LET n == (Len(messages) - 1) \div 2
           IN  /\ Len(messages) = 2 * n + 1
               /\ Len(chatHistory') = n
               /\ \A k \in 1..n :
                      /\ messages[2 * k].isUser
                      /\ ~messages[2 * k + 1].isUser
                      /\ chatHistory'[k] =
                             [user |-> messages[2 * k].text,
                              assistant |-> messages[2 * k + 1].text]
               /\ messages' = Append(messages, [text |-> input, isUser |-> TRUE])]_vars

\* the third chat request is in flight with the two earlier exchanges, one
\* of them answered and one failed, as its history
C29_Witness ==
    /\ inFlight.chat = 1
    /\ Len(messages) = 6
    /\ Len(chatHistory) = 2
    /\ chatHistory[1].user # chatHistory[2].user
    /\ {chatHistory[1].assistant, chatHistory[2].assistant} =
           {"response.data.message", "Cannot connect to AI service"}

(***************************************************************************)
(* EnhanceSpec: ImageProcessor.enhanceImage (imageProcessor.ts 10-52) as a *)
(* function of its arguments and of the step of it that fails, if any.     *)
(***************************************************************************)
\* canvas.toBlob gives null; fetch rejects; the response is not OK;
\* response.json() rejects; the image of the result does not load
EnhanceFailures == {"blob", "network", "not-ok", "json", "decode"}

EnhanceCalls ==
    [imageData : 1..3, originalWidth : {40, 80}, originalHeight : {40, 80},
     scale : {2, 4}, failure : EnhanceFailures \cup {"none"}]

\* the promise enhanceImage returns, once settled.  The promise of the image
\* load is returned without an await: its rejection is the rejection of the
\* call, outside the reach of the catch block
EnhanceImage(call) ==
    CASE call.failure \in {"blob", "network", "not-ok", "json"} ->
             [promise |-> "resolved", imageData |-> call.imageData]
      [] call.failure = "decode" ->
             [promise |-> "rejected", reason |-> "error event"]
      [] OTHER ->
             [promise |-> "resolved",
              imageData |-> [enhanced |-> call.imageData,
                             width |-> call.originalWidth,
                             height |-> call.originalHeight]]

EnhanceInit ==
    /\ CanvasInit
    /\ activeLayer = Null /\ tool = "brush"
    /\ \A l \in LayerIds : layers[l].transform = NoTransform /\ layers[l].visible
    /\ layers["L2"].imageData = NoImage
    /\ MapIdle /\ RenderIdle /\ AiIdle
    /\ eIn \in EnhanceCalls
    /\ eOut = NoCall

enhanceImage ==
    /\ eOut = NoCall
    /\ eOut' = EnhanceImage(eIn)
    /\ UNCHANGED <<eIn, canvasVars, mapVars, renderVars, aiVars>>

EnhanceSpec == EnhanceInit /\ [][enhanceImage]_vars

\* C24: a call of enhanceImage in which a step fails resolves with the
\* ImageData it was given.
C24_EnhanceResolvesWithInput ==
    (eOut # NoCall /\ eIn.failure \in EnhanceFailures) =>
        /\ eOut.promise = "resolved"
        /\ eOut.imageData = eIn.imageData

====
